---- MODULE Spec2Model ----
(***************************************************************************)
(* The Markov-style item advisor of "new version/markov_trainer.py" (the   *)
(* in-memory advisor) and "new version/marko.py" (the persisted advisor):  *)
(* the final-item filter, the extraction of a participant's build          *)
(* sequence, the training fold into the specific and general transition    *)
(* tables, and the greedy build query.                                     *)
(*                                                                         *)
(* Representation.                                                         *)
(*  - A Python dict is a sequence of <<key, value>> pairs with distinct     *)
(*    keys, in insertion order (max() and the stable sorted() of the       *)
(*    traversal depend on that order).                                     *)
(*  - A weight is counted in units of 0.5: a win adds 6 (3.0), a loss      *)
(*    adds 1 (0.5).  Sums of these floats are exact.                       *)
(*  - The catalog is a set of entries, one per key; an entry lists the     *)
(*    keys it holds ("name", "tags", "into"), since the code reads them    *)
(*    with dict.get.                                                       *)
(***************************************************************************)
EXTENDS Integers, Sequences, FiniteSets, TLC

VARIABLES
    item_data,        \* self.item_data: the catalog fetched at construction
    program,          \* which script runs: "markov_trainer" or "marko"
    pc,               \* position of the script
    corpus,           \* the match files train() has read so far, in glob order
    specific_memory,  \* self.specific_memory
    general_memory,   \* self.general_memory
    temp_specific,    \* marko.py train(): temp_specific
    temp_general,     \* marko.py train(): temp_general
    brain_file,       \* marko.py: content of BRAIN_FILE
    query,            \* arguments of the last recommend_build call
    returned,         \* what the last recommend_build call returned
    printed,          \* the "Item i: name (Score...)" lines it printed
    messages,         \* the status lines it printed
    transitions,      \* greedy traversal: the table walked
    current_item,     \* greedy traversal: current_item
    visited,          \* greedy traversal: visited
    build_path,       \* greedy traversal: build_path (the items chosen, in order)
    scores,           \* greedy traversal: the score printed with each item
    loop_i,           \* greedy traversal: the loop variable i of range(1, 7)
    item_id,          \* final-item filter: the identifier asked about
    final_result,     \* final-item filter: result of marko.py / markov_trainer.py
    final_result_ma,  \* final-item filter: result of matchup_analysis.py
    purchases,        \* build sequence: p['item_purchases'] of one participant
    purchase_idx,     \* build sequence: how many purchases the loop has consumed
    build_sequence,   \* build sequence: build_sequence
    processed_ids,    \* build sequence: processed_ids
    files,            \* the match files of INPUT_FOLDER, in the order glob returns them
    part_idx,         \* participant loop: how many participants it has consumed
    loaded,           \* marko.py: what load_brain() returned ("none" before a call)
    trains,           \* marko.py: train() calls completed since the process started
    twin_specific,    \* a second training run: its specific table
    twin_general,     \* a second training run: its general table
    twin_pc           \* a second training run: its position

vars == <<item_data, program, pc, corpus, specific_memory, general_memory,
          temp_specific, temp_general, brain_file, query, returned, printed,
          messages, transitions, current_item, visited, build_path, scores,
          loop_i, item_id, final_result, final_result_ma, purchases,
          purchase_idx, build_sequence, processed_ids, files, part_idx, loaded,
          trains, twin_specific, twin_general, twin_pc>>

(***************************************************************************)
(* Python dicts                                                            *)
(***************************************************************************)
EmptyDict == <<>>

Keys(d) == {d[i][1] : i \in DOMAIN d}

Has(d, k) == \E i \in DOMAIN d : d[i][1] = k

Get(d, k) == d[CHOOSE i \in DOMAIN d : d[i][1] = k][2]

GetOr(d, k, default) == IF Has(d, k) THEN Get(d, k) ELSE default

\* d[k] = v: an existing key keeps its position, a new key goes last.
Put(d, k, v) ==
    IF Has(d, k)
    THEN [i \in DOMAIN d |-> IF d[i][1] = k THEN <<k, v>> ELSE d[i]]
    ELSE Append(d, <<k, v>>)

\* defaultdict: reading d[k] inserts the default when k is missing.
Touch(d, k, default) == IF Has(d, k) THEN d ELSE Append(d, <<k, default>>)

SeqToSet(s) == {s[i] : i \in DOMAIN s}

\* the JSON text "{}", and the content fields of a file that holds no tables
NoText == [obj |-> <<>>]

trainVars == <<corpus, specific_memory, general_memory, temp_specific,
               temp_general, brain_file>>
queryVars == <<query, returned, printed, messages>>
greedyVars == <<transitions, current_item, visited, build_path, scores, loop_i>>
finalVars == <<item_id, final_result, final_result_ma>>
seqVars == <<purchases, purchase_idx, build_sequence, processed_ids>>
lifeVars == <<files, part_idx, loaded, trains>>
twinVars == <<twin_specific, twin_general, twin_pc>>

(***************************************************************************)
(* The item catalog and the final-item filter                              *)
(***************************************************************************)
\* The price from which an item without upgrade counts as final.
FinalMinGold == 1600

InCatalog(id, item_data_map) == \E e \in item_data_map : e.id = id

Info(id, item_data_map) == CHOOSE e \in item_data_map : e.id = id

\* info.get('tags', [])
TagsOf(info) == IF "tags" \in info.keys THEN info.tags ELSE {}

\* the truth value of info.get('into'): a missing key and an empty list are falsy
HasInto(info) == "into" \in info.keys /\ info.into # <<>>

\* is_final_item with the price test off by one
IsFinalItemOffByOne(id, item_data_map) ==
    IF ~InCatalog(id, item_data_map) THEN FALSE
    ELSE LET info == Info(id, item_data_map) IN
         IF "Boots" \in TagsOf(info) /\ ~HasInto(info) THEN TRUE
         ELSE IF HasInto(info) \/ info.gold <= FinalMinGold THEN FALSE
         ELSE TRUE

\* a filter that keeps every item of the catalog, components included
IsFinalItemInCatalog(id, item_data_map) == InCatalog(id, item_data_map)

\* is_final_item of marko.py and markov_trainer.py
IsFinalItem(id, item_data_map) ==
    IF ~InCatalog(id, item_data_map) THEN FALSE
    ELSE LET info == Info(id, item_data_map) IN
         IF "Boots" \in TagsOf(info) /\ ~HasInto(info) THEN TRUE
         ELSE IF HasInto(info) \/ info.gold < FinalMinGold THEN FALSE
         ELSE TRUE

\* is_final_item of matchup_analysis.py: the same tests in another order
IsFinalItemMA(id, item_data_map) ==
    IF ~InCatalog(id, item_data_map) THEN FALSE
    ELSE LET info == Info(id, item_data_map) IN
         IF HasInto(info) THEN FALSE
         ELSE IF "Boots" \in TagsOf(info) THEN TRUE
         ELSE IF info.gold < FinalMinGold THEN FALSE
         ELSE TRUE

\* f"ID {item_id}"
Placeholder(id) == "ID " \o id

\* get_item_name that shows the bare identifier of an unknown item
GetItemNameBare(id, item_data_map) ==
    IF InCatalog(id, item_data_map) /\ "name" \in Info(id, item_data_map).keys
    THEN Info(id, item_data_map).name
    ELSE id

\* get_item_name: self.item_data.get(item_id, {}).get('name', f"ID {item_id}")
GetItemName(id, item_data_map) ==
    IF InCatalog(id, item_data_map) /\ "name" \in Info(id, item_data_map).keys
    THEN Info(id, item_data_map).name
    ELSE Placeholder(id)

(***************************************************************************)
(* Idle values of the variable groups a specification does not use         *)
(***************************************************************************)
NoQuery == [my_champ |-> "", enemy_champ |-> ""]

NoReturn == [is_none |-> TRUE, path |-> <<>>]

TrainIdle ==
    /\ corpus = <<>>
    /\ specific_memory = EmptyDict
    /\ general_memory = EmptyDict
    /\ temp_specific = EmptyDict
    /\ temp_general = EmptyDict
    /\ brain_file = [exists |-> FALSE, kind |-> "absent", keys |-> {},
                     specific |-> NoText, general |-> NoText]

QueryIdle ==
    /\ query = NoQuery
    /\ returned = NoReturn
    /\ printed = <<>>
    /\ messages = <<>>

GreedyIdle ==
    /\ transitions = EmptyDict
    /\ current_item = "START"
    /\ visited = {}
    /\ build_path = <<>>
    /\ scores = <<>>
    /\ loop_i = 1

FinalIdle ==
    /\ item_id = ""
    /\ final_result = FALSE
    /\ final_result_ma = FALSE

SeqIdle ==
    /\ purchases = <<>>
    /\ purchase_idx = 0
    /\ build_sequence = <<>>
    /\ processed_ids = {}

LifeIdle ==
    /\ files = <<>>
    /\ part_idx = 0
    /\ loaded = "none"
    /\ trains = 0

TwinIdle ==
    /\ twin_specific = EmptyDict
    /\ twin_general = EmptyDict
    /\ twin_pc = "idle"

(***************************************************************************)
(* SpecFinal: the final-item filter applied to one catalog entry           *)
(***************************************************************************)
GoldValues == {0, 1100, 1599, 1600, 3400}

FinalEntries ==
    [id : {"1"}, keys : SUBSET {"name", "tags", "into"}, name : {"Item"},
     tags : {{}, {"Boots"}}, into : {<<>>, <<"3">>}, gold : GoldValues]

FinalInit ==
    /\ item_data \in {{}} \cup {{e} : e \in FinalEntries}
    /\ item_id \in {"1", "2"}
    /\ final_result = FALSE
    /\ final_result_ma = FALSE
    /\ program = "filter"
    /\ pc = "final_start"
    /\ TrainIdle /\ QueryIdle /\ GreedyIdle /\ SeqIdle /\ LifeIdle /\ TwinIdle

CheckFinal ==
    /\ pc = "final_start"
    /\ final_result' = IsFinalItem(item_id, item_data)
    /\ final_result_ma' = IsFinalItemMA(item_id, item_data)
    /\ pc' = "final_done"
    /\ UNCHANGED <<item_data, program, item_id>>
    /\ UNCHANGED <<trainVars, queryVars, greedyVars, seqVars, lifeVars, twinVars>>

FinalNext == CheckFinal

SpecFinal == FinalInit /\ [][FinalNext]_vars

\* C2: is_final_item is false for an identifier that is no key of the catalog,
\* false for an entry with a non-empty 'into', true for a Boots entry without
\* 'into' whatever its price, and for an entry with neither true exactly when
\* gold.total >= 1600 (false at 1599, true at 1600); the filter of
\* matchup_analysis.py gives the same answers.
C2_FinalItemFilter ==
    pc = "final_done" =>
        /\ ~InCatalog(item_id, item_data) => final_result = FALSE
        /\ \A e \in item_data : e.id = item_id =>
              LET into == IF "into" \in e.keys THEN e.into ELSE <<>>
                  boots == "tags" \in e.keys /\ "Boots" \in e.tags
              IN  /\ Len(into) > 0 => final_result = FALSE
                  /\ (Len(into) = 0 /\ boots) => final_result = TRUE
                  /\ (Len(into) = 0 /\ ~boots) => (final_result <=> e.gold >= 1600)
                  /\ (Len(into) = 0 /\ ~boots /\ e.gold = 1599) => final_result = FALSE
                  /\ (Len(into) = 0 /\ ~boots /\ e.gold = 1600) => final_result = TRUE
        /\ final_result_ma = final_result

C2_Witness ==
    /\ pc = "final_done"
    /\ final_result = TRUE
    /\ \E e \in item_data :
          e.id = item_id /\ e.gold = 1600 /\ TagsOf(e) = {} /\ ~HasInto(e)

(***************************************************************************)
(* The build sequence of one participant (the purchase loop of train())    *)
(***************************************************************************)
\* A catalog in the shape of the Data Dragon item file: a component that
\* builds into F1, two final items and a pair of final boots.
Catalog ==
    { [id |-> "1000", keys |-> {"name", "tags", "into"}, name |-> "C1000",
       tags |-> {}, into |-> <<"1">>, gold |-> 1000],
      [id |-> "1", keys |-> {"name", "tags"}, name |-> "F1",
       tags |-> {}, into |-> <<>>, gold |-> 1800],
      [id |-> "2", keys |-> {"name", "tags"}, name |-> "F2",
       tags |-> {"Boots"}, into |-> <<>>, gold |-> 1100],
      [id |-> "3", keys |-> {"name", "tags"}, name |-> "F3",
       tags |-> {}, into |-> <<>>, gold |-> 2000] }

\* str(purchase['itemId'])
Str(n) == ToString(n)

StartSeq == [seq |-> <<"START">>, ids |-> {}]

\* the loop body without the processed_ids test
BuildSeqStepNoDedup(st, purchase, item_data_map) ==
    LET i_id == Str(purchase.itemId) IN
    IF ~IsFinalItem(i_id, item_data_map) THEN st
    ELSE [seq |-> Append(st.seq, i_id), ids |-> st.ids \cup {i_id}]

\* One iteration of "for purchase in p['item_purchases']".
BuildSeqStep(st, purchase, item_data_map) ==
    LET i_id == Str(purchase.itemId) IN
    IF ~IsFinalItem(i_id, item_data_map) THEN st
    ELSE IF i_id \in st.ids THEN st
    ELSE [seq |-> Append(st.seq, i_id), ids |-> st.ids \cup {i_id}]

RECURSIVE BuildLoop(_, _, _)
BuildLoop(st, item_purchases, item_data_map) ==
    IF item_purchases = <<>> THEN st
    ELSE BuildLoop(BuildSeqStep(st, Head(item_purchases), item_data_map),
                   Tail(item_purchases), item_data_map)

\* build_sequence once the purchase loop has ended
BuildSequence(item_purchases, item_data_map) ==
    BuildLoop(StartSeq, item_purchases, item_data_map).seq

(***************************************************************************)
(* SpecSeq: the purchase loop on every short purchase list                 *)
(***************************************************************************)
MaxPurchases == 3

SeqItemIds == {1000, 1, 2, 3, 9}

\* the event types parse_items_from_match keeps in a participant's list
EventTypes == {"ITEM_PURCHASED", "ITEM_SOLD", "ITEM_DESTROYED"}

PurchaseEvents == [itemId : SeqItemIds, type : EventTypes]

PurchaseLists == UNION {[1..n -> PurchaseEvents] : n \in 0..MaxPurchases}

SeqInit ==
    /\ item_data = Catalog
    /\ purchases \in PurchaseLists
    /\ purchase_idx = 0
    /\ build_sequence = StartSeq.seq
    /\ processed_ids = StartSeq.ids
    /\ program = "train"
    /\ pc = "seq_loop"
    /\ TrainIdle /\ QueryIdle /\ GreedyIdle /\ FinalIdle /\ LifeIdle /\ TwinIdle

\* for purchase in p['item_purchases']: one iteration
PurchaseStep ==
    /\ pc = "seq_loop"
    /\ purchase_idx < Len(purchases)
    /\ LET st == BuildSeqStep([seq |-> build_sequence, ids |-> processed_ids],
                              purchases[purchase_idx + 1], item_data)
       IN  /\ build_sequence' = st.seq
           /\ processed_ids' = st.ids
    /\ purchase_idx' = purchase_idx + 1
    /\ UNCHANGED <<item_data, program, pc, purchases>>
    /\ UNCHANGED <<trainVars, queryVars, greedyVars, finalVars, lifeVars, twinVars>>

\* the loop ends when the list is exhausted
PurchaseLoopEnd ==
    /\ pc = "seq_loop"
    /\ purchase_idx = Len(purchases)
    /\ pc' = "seq_done"
    /\ UNCHANGED <<item_data, program, purchases, seqVars>>
    /\ UNCHANGED <<trainVars, queryVars, greedyVars, finalVars, lifeVars, twinVars>>

SeqNext == PurchaseStep \/ PurchaseLoopEnd

SpecSeq == SeqInit /\ [][SeqNext]_vars

\* Position of the first purchase of identifier x in the purchase list.
FirstPurchase(x) ==
    CHOOSE i \in DOMAIN purchases :
        /\ Str(purchases[i].itemId) = x
        /\ \A j \in 1..(i - 1) : Str(purchases[j].itemId) # x

\* C3: the build sequence starts with START, continues with exactly the final
\* item identifiers of the purchase list, each once, in the order of their
\* first purchase; buying an item again leaves the sequence as it is.
C3_BuildSequence ==
    pc = "seq_done" =>
        LET n == Len(build_sequence) IN
        /\ n >= 1 /\ build_sequence[1] = "START"
        /\ \A j, k \in 1..n : j # k => build_sequence[j] # build_sequence[k]
        /\ {build_sequence[j] : j \in 2..n} =
              {Str(purchases[i].itemId) : i \in DOMAIN purchases}
                 \cap {e.id : e \in {c \in item_data : IsFinalItem(c.id, item_data)}}
        /\ \A j, k \in 2..n : j < k =>
              FirstPurchase(build_sequence[j]) < FirstPurchase(build_sequence[k])
        /\ build_sequence = BuildSequence(purchases, item_data)

\* Once an identifier is in the sequence, it keeps its position.
C3_Witness ==
    /\ pc = "seq_done"
    /\ Len(purchases) = 3
    /\ purchases[1].itemId = 1 /\ purchases[2].itemId = 2 /\ purchases[3].itemId = 1
    /\ build_sequence = <<"START", "1", "2">>

\* C11: only events of type PURCHASED contribute: an iteration of the purchase
\* loop on an event of another type (SOLD, DESTROYED) leaves the build sequence
\* as it was, so that the event adds no item and no edge weight.
C11_OnlyPurchased ==
    [][(pc = "seq_loop" /\ purchase_idx < Len(purchases)
          /\ purchases[purchase_idx + 1].type # "ITEM_PURCHASED")
       => build_sequence' = build_sequence]_vars

(***************************************************************************)
(* Training: one participant, one match file                               *)
(***************************************************************************)
\* weight = 3.0 if win else 0.5, in units of 0.5
WinWeight == 6

LossWeight == 1

ValidLanes == {"TOP", "JUNGLE", "MIDDLE", "BOTTOM", "UTILITY"}

ParticipantKeys == {"championName", "teamId", "lane", "win", "item_purchases"}

\* the search that keeps the last record of the other team and the same lane
FindOpponentLast(participants, j, my_team, my_lane) ==
    LET cands == {h \in j..Len(participants) :
                     /\ participants[h].teamId # my_team
                     /\ participants[h].lane = my_lane}
    IN  IF cands = {} THEN [raised |-> FALSE, found |-> FALSE, idx |-> 0]
        ELSE [raised |-> FALSE, found |-> TRUE,
              idx |-> CHOOSE h \in cands : \A g \in cands : g <= h]

\* The search "for opp in participants" from position j on.  Reading
\* opp['teamId'] or opp['lane'] of a record without that key raises.
RECURSIVE FindOpponent(_, _, _, _)
FindOpponent(participants, j, my_team, my_lane) ==
    IF j > Len(participants) THEN [raised |-> FALSE, found |-> FALSE, idx |-> 0]
    ELSE LET opp == participants[j] IN
         IF "teamId" \notin opp.keys
         THEN [raised |-> TRUE, found |-> FALSE, idx |-> 0]
         ELSE IF opp.teamId = my_team
         THEN FindOpponent(participants, j + 1, my_team, my_lane)
         ELSE IF "lane" \notin opp.keys
         THEN [raised |-> TRUE, found |-> FALSE, idx |-> 0]
         ELSE IF opp.lane = my_lane
         THEN [raised |-> FALSE, found |-> TRUE, idx |-> j]
         ELSE FindOpponent(participants, j + 1, my_team, my_lane)

\* memory[my_champ][enemy_champ][current_node][next_node] += weight
\* a specific table that records nothing under the key "Unknown"
AddSpecificKnownOnly(specific, my_champ, enemy_champ, current_node, next_node, weight) ==
    IF enemy_champ = "Unknown" THEN specific
    ELSE LET m1 == GetOr(specific, my_champ, EmptyDict)
             m2 == GetOr(m1, enemy_champ, EmptyDict)
             m3 == GetOr(m2, current_node, EmptyDict)
             old == GetOr(m3, next_node, 0)
         IN  Put(specific, my_champ,
                 Put(m1, enemy_champ,
                     Put(m2, current_node, Put(m3, next_node, old + weight))))

AddSpecific(specific, my_champ, enemy_champ, current_node, next_node, weight) ==
    LET m1 == GetOr(specific, my_champ, EmptyDict)
        m2 == GetOr(m1, enemy_champ, EmptyDict)
        m3 == GetOr(m2, current_node, EmptyDict)
        old == GetOr(m3, next_node, 0)
    IN  Put(specific, my_champ,
            Put(m1, enemy_champ,
                Put(m2, current_node, Put(m3, next_node, old + weight))))

\* a general table that keeps the last weight instead of the sum
AddGeneralOnce(general, my_champ, current_node, next_node, weight) ==
    LET m1 == GetOr(general, my_champ, EmptyDict)
        m2 == GetOr(m1, current_node, EmptyDict)
    IN  Put(general, my_champ,
            Put(m1, current_node, Put(m2, next_node, weight)))

\* memory[my_champ][current_node][next_node] += weight
AddGeneral(general, my_champ, current_node, next_node, weight) ==
    LET m1 == GetOr(general, my_champ, EmptyDict)
        m2 == GetOr(m1, current_node, EmptyDict)
        old == GetOr(m2, next_node, 0)
    IN  Put(general, my_champ,
            Put(m1, current_node, Put(m2, next_node, old + weight)))

\* a loss that takes weight away
WeightOfPenalty(win) == IF win THEN WinWeight ELSE 0 - LossWeight

\* the same weight for a win and a loss
WeightOfFlat(win) == WinWeight

\* weight = 3.0 if win else 0.5
WeightOf(win) == IF win THEN WinWeight ELSE LossWeight

\* for i in range(len(build_sequence) - 1): both tables, from pair i on
RECURSIVE Reinforce(_, _, _, _, _, _)
Reinforce(mem, my_champ, enemy_champ, seq, i, weight) ==
    IF i > Len(seq) - 1 THEN mem
    ELSE Reinforce(
            [specific |-> AddSpecific(mem.specific, my_champ, enemy_champ,
                                      seq[i], seq[i + 1], weight),
             general |-> AddGeneral(mem.general, my_champ, seq[i], seq[i + 1],
                                    weight)],
            my_champ, enemy_champ, seq, i + 1, weight)

\* the loop body that skips a participant without direct opponent
ProcessParticipantSkipsUnknown(mem, participants, k, item_data_map) ==
    LET p == participants[k]
        o == FindOpponent(participants, 1, p.teamId, p.lane)
        seq == BuildSequence(p.item_purchases, item_data_map)
    IN  IF p.lane \notin ValidLanes \/ ~o.found
        THEN [raised |-> FALSE, specific |-> mem.specific, general |-> mem.general]
        ELSE IF "item_purchases" \notin p.keys
        THEN [raised |-> TRUE, specific |-> mem.specific, general |-> mem.general]
        ELSE LET out == Reinforce(mem, p.championName,
                                  participants[o.idx].championName, seq, 1,
                                  IF p.win THEN WinWeight ELSE LossWeight)
             IN  [raised |-> FALSE, specific |-> out.specific,
                  general |-> out.general]

\* the loop body without the lane test
ProcessParticipantAnyLane(mem, participants, k, item_data_map) ==
    LET p == participants[k]
        o == FindOpponent(participants, 1, p.teamId, p.lane)
        seq == BuildSequence(p.item_purchases, item_data_map)
    IN  IF "item_purchases" \notin p.keys
        THEN [raised |-> TRUE, specific |-> mem.specific, general |-> mem.general]
        ELSE LET out == Reinforce(mem, p.championName,
                                  IF o.found THEN participants[o.idx].championName
                                  ELSE "Unknown",
                                  seq, 1, IF p.win THEN WinWeight ELSE LossWeight)
             IN  [raised |-> FALSE, specific |-> out.specific,
                  general |-> out.general]

\* The body of "for p in participants" for participant k of a match.
\* raised: an exception left the loop body (a key the code indexes is missing);
\* the tables are then as they were before this participant.
ProcessParticipant(mem, participants, k, item_data_map) ==
    LET p == participants[k]
        unchanged == [raised |-> FALSE, specific |-> mem.specific,
                      general |-> mem.general]
        failed == [raised |-> TRUE, specific |-> mem.specific,
                   general |-> mem.general]
    IN
    IF {"championName", "teamId", "lane", "win"} \ p.keys # {} THEN failed
    ELSE IF p.lane \notin ValidLanes THEN unchanged
    ELSE LET o == FindOpponent(participants, 1, p.teamId, p.lane) IN
         IF o.raised THEN failed
         ELSE IF o.found /\ "championName" \notin participants[o.idx].keys
         THEN failed
         ELSE IF "item_purchases" \notin p.keys THEN failed
         ELSE LET enemy_champ == IF o.found
                                 THEN participants[o.idx].championName
                                 ELSE "Unknown"
                  seq == BuildSequence(p.item_purchases, item_data_map)
                  out == Reinforce(mem, p.championName, enemy_champ, seq, 1,
                                   WeightOf(p.win))
              IN  [raised |-> FALSE, specific |-> out.specific,
                   general |-> out.general]

\* "for p in participants" from participant k on, inside the try block: the
\* first exception ends the work on this file.
RECURSIVE ProcessParticipants(_, _, _, _)
ProcessParticipants(mem, participants, k, item_data_map) ==
    IF k > Len(participants) THEN mem
    ELSE LET r == ProcessParticipant(mem, participants, k, item_data_map) IN
         IF r.raised THEN mem
         ELSE ProcessParticipants([specific |-> r.specific, general |-> r.general],
                                  participants, k + 1, item_data_map)

\* One iteration of "for filepath in files": a file that cannot be read as a
\* match (json.load or match['participants'] raises) changes nothing.
TrainOnFile(mem, file, item_data_map) ==
    IF ~file.readable THEN mem
    ELSE ProcessParticipants(mem, file.participants, 1, item_data_map)

(***************************************************************************)
(* The greedy traversal                                                    *)
(***************************************************************************)
\* a loop of one more iteration
MaxItemsSeven == 6 + 1

\* for i in range(1, 7)
MaxItems == 6

\* a maximum that keeps the last of the entries of equal score
LastMaxIdx(d) ==
    CHOOSE i \in DOMAIN d :
        \A j \in DOMAIN d : d[j][2] < d[i][2] \/ (d[j][2] = d[i][2] /\ j <= i)

\* Index of the first entry of d with the largest value (d is not empty).
FirstMaxIdx(d) ==
    CHOOSE i \in DOMAIN d :
        \A j \in DOMAIN d : d[j][2] < d[i][2] \/ (d[j][2] = d[i][2] /\ i <= j)

RemoveAt(d, i) == SubSeq(d, 1, i - 1) \o SubSeq(d, i + 1, Len(d))

\* sorted(next_options.items(), key=lambda x: x[1], reverse=True): a stable
\* sort, entries of equal score keep their dict order.
RECURSIVE SortedOpts(_)
SortedOpts(d) ==
    IF d = <<>> THEN <<>>
    ELSE <<d[FirstMaxIdx(d)]>> \o SortedOpts(RemoveAt(d, FirstMaxIdx(d)))

\* max(next_options, key=next_options.get)
MaxKey(d) == d[FirstMaxIdx(d)][1]

Stop == [stop |-> TRUE, item |-> "", score |-> 0]

Pick(item, score) == [stop |-> FALSE, item |-> item, score |-> score]

\* "for item, s in sorted_opts: if item not in visited: ... break"
FirstUnvisited(sorted_opts, visited_set) ==
    IF \E i \in DOMAIN sorted_opts : sorted_opts[i][1] \notin visited_set
    THEN LET i == CHOOSE i \in DOMAIN sorted_opts :
                      /\ sorted_opts[i][1] \notin visited_set
                      /\ \A j \in 1..(i - 1) : sorted_opts[j][1] \in visited_set
         IN  Pick(sorted_opts[i][1], sorted_opts[i][2])
    ELSE Stop

\* the iteration without the visited test
TrainerChoiceNoVisited(table, current, visited_set) ==
    IF ~Has(table, current) \/ Get(table, current) = EmptyDict THEN Stop
    ELSE LET next_options == Get(table, current) IN
         Pick(MaxKey(next_options), Get(next_options, MaxKey(next_options)))

\* the iteration taking the lightest free destination
TrainerChoiceLowest(table, current, visited_set) ==
    IF ~Has(table, current) \/ Get(table, current) = EmptyDict THEN Stop
    ELSE LET next_options == Get(table, current)
             unvisited == {i \in DOMAIN next_options :
                              next_options[i][1] \notin visited_set}
         IN  IF unvisited = {} THEN Stop
             ELSE LET i == CHOOSE i \in unvisited :
                              \A j \in unvisited :
                                  next_options[i][2] <= next_options[j][2]
                  IN  Pick(next_options[i][1], next_options[i][2])

\* the iteration that breaks when the heaviest destination is taken
TrainerChoiceStopsOnVisited(table, current, visited_set) ==
    IF ~Has(table, current) \/ Get(table, current) = EmptyDict THEN Stop
    ELSE LET next_options == Get(table, current)
             best_next == MaxKey(next_options)
         IN  IF best_next \in visited_set THEN Stop
             ELSE Pick(best_next, Get(next_options, best_next))

\* markov_trainer.py, one iteration of the traversal loop: what it appends,
\* or that it breaks.
TrainerChoice(table, current, visited_set) ==
    IF ~Has(table, current) \/ Get(table, current) = EmptyDict THEN Stop
    ELSE LET next_options == Get(table, current)
             best_next == MaxKey(next_options)
         IN  IF best_next \in visited_set
             THEN FirstUnvisited(SortedOpts(next_options), visited_set)
             ELSE Pick(best_next, Get(next_options, best_next))

\* marko.py _print_path, one iteration of the loop.  "if not best_next" also
\* breaks on an empty-string key.
PrintPathChoice(table, current, visited_set) ==
    IF ~Has(table, current) THEN Stop
    ELSE LET next_options == Get(table, current) IN
         IF next_options = EmptyDict THEN Stop
         ELSE LET c == FirstUnvisited(SortedOpts(next_options), visited_set) IN
              IF c.stop \/ c.item = "" THEN Stop ELSE c

Choice(prog, table, current, visited_set) ==
    IF prog = "marko" THEN PrintPathChoice(table, current, visited_set)
    ELSE TrainerChoice(table, current, visited_set)

\* The whole loop "for i in range(1, 7)" from iteration i on: the items
\* appended and their scores.
RECURSIVE Traverse(_, _, _, _, _, _)
Traverse(prog, table, current, visited_set, acc, i) ==
    IF i > MaxItems THEN acc
    ELSE LET c == Choice(prog, table, current, visited_set) IN
         IF c.stop THEN acc
         ELSE Traverse(prog, table, c.item, visited_set \cup {c.item},
                       [path |-> Append(acc.path, c.item),
                        scores |-> Append(acc.scores, c.score)],
                       i + 1)

GreedyPath(prog, table) ==
    Traverse(prog, table, "START", {}, [path |-> <<>>, scores |-> <<>>], 1)

\* The lines "Item i: name (Score ...)" of one traversal.
Lines(section, walk, item_data_map) ==
    [i \in DOMAIN walk.path |->
        [section |-> section, name |-> GetItemName(walk.path[i], item_data_map),
         score |-> walk.scores[i]]]

(***************************************************************************)
(* recommend_build                                                         *)
(***************************************************************************)
\* recommend_build(my_champ, None)
NoOpponent == "<None>"

\* markov_trainer.py recommend_build.  The tables are defaultdicts: reading
\* self.specific_memory[my_champ] and specific_data["START"] inserts the
\* missing key, so the call also yields the specific table it leaves behind.
RecommendTrainer(specific, general, my_champ, enemy_champ, item_data_map) ==
    LET s1 == Touch(specific, my_champ, EmptyDict)
        by_enemy == Get(s1, my_champ)
        truthy == Has(by_enemy, enemy_champ) /\ Get(by_enemy, enemy_champ) # EmptyDict
        specific_data == IF truthy
                         THEN Touch(Get(by_enemy, enemy_champ), "START", EmptyDict)
                         ELSE EmptyDict
        s2 == IF truthy
              THEN Put(s1, my_champ, Put(by_enemy, enemy_champ, specific_data))
              ELSE s1
        use_specific == truthy /\ Len(Get(specific_data, "START")) > 0
        table == IF use_specific THEN specific_data
                 ELSE GetOr(general, my_champ, EmptyDict)
        mode == IF use_specific THEN "SPECIFIC" ELSE "GENERAL"
        walk == GreedyPath("markov_trainer", table)
    IN  IF table = EmptyDict
        THEN [specific |-> s2, returned |-> NoReturn, printed |-> <<>>,
              messages |-> <<mode, "NODATA">>]
        ELSE [specific |-> s2,
              returned |-> [is_none |-> FALSE, path |-> walk.path],
              printed |-> Lines(mode, walk, item_data_map),
              messages |-> <<mode>>]

\* marko.py recommend_build: plain dicts, nothing is inserted; it prints and
\* returns None.
RecommendMarko(specific, general, my_champ, enemy_champ, item_data_map) ==
    LET has_general == Has(general, my_champ) /\ Has(Get(general, my_champ), "START")
        has_specific == /\ Has(specific, my_champ)
                        /\ Has(Get(specific, my_champ), enemy_champ)
                        /\ Has(Get(Get(specific, my_champ), enemy_champ), "START")
        gen_lines == Lines("GENERAL",
                           GreedyPath("marko", Get(general, my_champ)),
                           item_data_map)
        spe_lines == Lines("SPECIFIC",
                           GreedyPath("marko",
                                      Get(Get(specific, my_champ), enemy_champ)),
                           item_data_map)
    IN  IF ~has_general
        THEN [specific |-> specific, returned |-> NoReturn, printed |-> <<>>,
              messages |-> <<"NODATA">>]
        ELSE IF has_specific
        THEN [specific |-> specific, returned |-> NoReturn,
              printed |-> gen_lines \o spe_lines,
              messages |-> <<"GENERAL", "SPECIFIC">>]
        ELSE [specific |-> specific, returned |-> NoReturn,
              printed |-> gen_lines,
              messages |-> <<"GENERAL", "NOSPECIFIC">>]

\* recommend_build that looks at the general table first
RecommendGeneralFirst(prog, specific, general, my_champ, enemy_champ, item_data_map) ==
    IF prog = "marko"
    THEN RecommendMarko(specific, general, my_champ, enemy_champ, item_data_map)
    ELSE IF Has(general, my_champ)
    THEN [RecommendTrainer(EmptyDict, general, my_champ, enemy_champ, item_data_map)
             EXCEPT !.specific = specific]
    ELSE RecommendTrainer(specific, general, my_champ, enemy_champ, item_data_map)

\* recommend_build that rejects a call without opponent
RecommendNeedsOpponent(prog, specific, general, my_champ, enemy_champ, item_data_map) ==
    IF enemy_champ = NoOpponent
    THEN [specific |-> specific, returned |-> NoReturn, printed |-> <<>>,
          messages |-> <<"NODATA">>]
    ELSE IF prog = "marko"
    THEN RecommendMarko(specific, general, my_champ, enemy_champ, item_data_map)
    ELSE RecommendTrainer(specific, general, my_champ, enemy_champ, item_data_map)

\* recommend_build that answers for the first champion of the general table
\* when the champion asked for has no table
RecommendDefaultChampion(prog, specific, general, my_champ, enemy_champ, item_data_map) ==
    LET champ == IF ~Has(general, my_champ) /\ general # EmptyDict
                 THEN general[1][1] ELSE my_champ
    IN  IF prog = "marko"
        THEN RecommendMarko(specific, general, champ, enemy_champ, item_data_map)
        ELSE RecommendTrainer(specific, general, champ, enemy_champ, item_data_map)

RecommendBuild(prog, specific, general, my_champ, enemy_champ, item_data_map) ==
    IF prog = "marko"
    THEN RecommendMarko(specific, general, my_champ, enemy_champ, item_data_map)
    ELSE RecommendTrainer(specific, general, my_champ, enemy_champ, item_data_map)

(***************************************************************************)
(* The brain file of marko.py                                              *)
(***************************************************************************)
\* json.dumps of a table nested `depth` dicts deep: objects of members, with
\* the weights as number tokens at the leaves.
RECURSIVE JsonDumps(_, _)
JsonDumps(v, depth) ==
    IF depth = 0 THEN [num |-> v]
    ELSE [obj |-> [i \in DOMAIN v |-> <<v[i][1], JsonDumps(v[i][2], depth - 1)>>]]

\* a parser that builds each object from its last member to its first
RECURSIVE JsonLoadsReversed(_, _)
JsonLoadsReversed(t, depth) ==
    IF depth = 0 THEN t.num
    ELSE [i \in DOMAIN t.obj |->
             <<t.obj[Len(t.obj) + 1 - i][1],
               JsonLoadsReversed(t.obj[Len(t.obj) + 1 - i][2], depth - 1)>>]

\* json.loads of such a text
RECURSIVE JsonLoads(_, _)
JsonLoads(t, depth) ==
    IF depth = 0 THEN t.num
    ELSE [i \in DOMAIN t.obj |-> <<t.obj[i][1], JsonLoads(t.obj[i][2], depth - 1)>>]

SpecificDepth == 4

GeneralDepth == 3

\* BRAIN_FILE: whether the path exists, what its content is ("object": the
\* text of a JSON object), the top-level keys of that object and the JSON
\* texts stored under "specific" and "general".
NoBrainFile == [exists |-> FALSE, kind |-> "absent", keys |-> {},
                specific |-> NoText, general |-> NoText]

\* the file json.dump(data, f) leaves once it is written and closed
Snapshot(specific, general) ==
    [exists |-> TRUE, kind |-> "object", keys |-> {"specific", "general"},
     specific |-> JsonDumps(specific, SpecificDepth),
     general |-> JsonDumps(general, GeneralDepth)]

(***************************************************************************)
(* Spec: a run of markov_trainer.py or of marko.py (no brain file yet):    *)
(* train() over the match files, then recommend_build queries              *)
(***************************************************************************)
MaxFiles == 2

Buy(n) == [itemId |-> n, type |-> "ITEM_PURCHASED"]

\* a component, its final item, boots
ListA == <<Buy(1000), Buy(1), Buy(2)>>

\* two final items
ListB == <<Buy(1), Buy(3)>>

Participant(champ, team, lane, win, list) ==
    [keys |-> ParticipantKeys, championName |-> champ, teamId |-> team,
     lane |-> lane, win |-> win, item_purchases |-> list]

\* a record without its 'item_purchases' field
Incomplete(champ, team, lane, win) ==
    [keys |-> ParticipantKeys \ {"item_purchases"}, championName |-> champ,
     teamId |-> team, lane |-> lane, win |-> win, item_purchases |-> <<>>]

Records(champ, team, lanes) ==
    {Participant(champ, team, l, w, list) :
        l \in lanes, w \in BOOLEAN, list \in {ListA, ListB}}
    \cup {Incomplete(champ, team, l, w) : l \in lanes, w \in BOOLEAN}

\* Garen (team 100, TOP) against Darius (team 200, TOP or without a lane),
\* one winner.
MatchFiles ==
    {[readable |-> TRUE, participants |-> <<g, d>>] :
        g \in Records("Garen", 100, {"TOP"}),
        d \in Records("Darius", 200, {"TOP"})
               \cup {Participant("Darius", 200, "NONE", w, ListA) : w \in BOOLEAN}}

Matches == {m \in MatchFiles : m.participants[1].win # m.participants[2].win}

UnreadableFile == [readable |-> FALSE, participants |-> <<>>]

Files == Matches \cup {UnreadableFile}

QueryChamps == {"Garen", "Teemo"}

QueryEnemies == {"Darius", NoOpponent}

Init ==
    /\ item_data = Catalog
    /\ program \in {"markov_trainer", "marko"}
    /\ pc = "start"
    /\ corpus = <<>>
    /\ specific_memory = EmptyDict
    /\ general_memory = EmptyDict
    /\ temp_specific = EmptyDict
    /\ temp_general = EmptyDict
    /\ brain_file = NoBrainFile
    /\ QueryIdle /\ GreedyIdle /\ FinalIdle /\ SeqIdle /\ LifeIdle /\ TwinIdle

\* main() calls ai.train(): markov_trainer.py always, marko.py when there is
\* no brain file.  marko.py's train() starts from empty temporary tables.
StartTrain ==
    /\ pc = "start"
    /\ program = "marko" => ~brain_file.exists
    /\ pc' = "training"
    /\ temp_specific' = EmptyDict
    /\ temp_general' = EmptyDict
    /\ UNCHANGED <<item_data, program, corpus, specific_memory, general_memory,
                   brain_file>>
    /\ UNCHANGED <<queryVars, greedyVars, finalVars, seqVars, lifeVars, twinVars>>

\* One iteration of "for filepath in files", on the next file of the folder.
TrainFile(file) ==
    /\ pc = "training"
    /\ Len(corpus) < MaxFiles
    /\ corpus' = Append(corpus, file)
    /\ IF program = "marko"
       THEN LET out == TrainOnFile([specific |-> temp_specific,
                                    general |-> temp_general], file, item_data)
            IN  /\ temp_specific' = out.specific
                /\ temp_general' = out.general
                /\ UNCHANGED <<specific_memory, general_memory>>
       ELSE LET out == TrainOnFile([specific |-> specific_memory,
                                    general |-> general_memory], file, item_data)
            IN  /\ specific_memory' = out.specific
                /\ general_memory' = out.general
                /\ UNCHANGED <<temp_specific, temp_general>>
    /\ UNCHANGED <<item_data, program, pc, brain_file>>
    /\ UNCHANGED <<queryVars, greedyVars, finalVars, seqVars, lifeVars, twinVars>>

\* The file loop is over.  marko.py converts the temporary tables through
\* JSON into self.*_memory and calls save_brain().
EndTrain ==
    /\ pc = "training"
    /\ pc' = "ready"
    /\ IF program = "marko"
       THEN /\ specific_memory' =
                  JsonLoads(JsonDumps(temp_specific, SpecificDepth), SpecificDepth)
            /\ general_memory' =
                  JsonLoads(JsonDumps(temp_general, GeneralDepth), GeneralDepth)
            /\ brain_file' = Snapshot(specific_memory', general_memory')
       ELSE UNCHANGED <<specific_memory, general_memory, brain_file>>
    /\ UNCHANGED <<item_data, program, corpus, temp_specific, temp_general>>
    /\ UNCHANGED <<queryVars, greedyVars, finalVars, seqVars, lifeVars, twinVars>>

\* The input loop: "my_champ vs enemy_champ" calls recommend_build.
Recommend(my_champ, enemy_champ) ==
    /\ pc = "ready"
    /\ LET out == RecommendBuild(program, specific_memory, general_memory,
                                 my_champ, enemy_champ, item_data)
       IN  /\ specific_memory' = out.specific
           /\ returned' = out.returned
           /\ printed' = out.printed
           /\ messages' = out.messages
    /\ query' = [my_champ |-> my_champ, enemy_champ |-> enemy_champ]
    /\ UNCHANGED <<item_data, program, pc, corpus, general_memory, temp_specific,
                   temp_general, brain_file>>
    /\ UNCHANGED <<greedyVars, finalVars, seqVars, lifeVars, twinVars>>

Next ==
    \/ StartTrain
    \/ \E file \in Files : TrainFile(file)
    \/ EndTrain
    \/ \E c \in QueryChamps, e \in QueryEnemies : Recommend(c, e)

Spec == Init /\ [][Next]_vars

(***************************************************************************)
(* Reading the tables and the corpus                                       *)
(***************************************************************************)
\* The edges of a general table, as <<champion, from, to, weight>>.
GeneralEdges(g) ==
    UNION {UNION {{<<g[i][1], g[i][2][j][1], g[i][2][j][2][k][1], g[i][2][j][2][k][2]>> :
                      k \in DOMAIN g[i][2][j][2]} :
                  j \in DOMAIN g[i][2]} :
           i \in DOMAIN g}

\* The edges of a specific table, as <<champion, opponent, from, to, weight>>.
SpecificEdges(sp) ==
    UNION {{<<sp[i][1], e[1], e[2], e[3], e[4]>> : e \in GeneralEdges(sp[i][2])} :
           i \in DOMAIN sp}

\* The participants of the corpus for which train() builds a sequence: a valid
\* lane, in a readable file, with no record up to it that stops the work on the
\* file (every record of Files has its four scalar fields, so only a missing
\* 'item_purchases' of a record with a valid lane does).
Trained ==
    {fk \in (DOMAIN corpus) \X (1..2) :
        LET file == corpus[fk[1]] IN
        /\ file.readable
        /\ fk[2] \in DOMAIN file.participants
        /\ file.participants[fk[2]].lane \in ValidLanes
        /\ \A j \in 1..fk[2] :
              file.participants[j].lane \in ValidLanes
                 => "item_purchases" \in file.participants[j].keys}

RecordOf(fk) == corpus[fk[1]].participants[fk[2]]

SequenceOf(fk) == BuildSequence(RecordOf(fk).item_purchases, item_data)

\* b immediately follows a in seq
Follows(seq, a, b) == \E i \in 1..(Len(seq) - 1) : seq[i] = a /\ seq[i + 1] = b

\* The first record, in the order of the file, of the other team and the same
\* lane; "Unknown" when there is none.
DirectOpponent(fk) ==
    LET ps == corpus[fk[1]].participants
        me == RecordOf(fk)
        cands == {j \in DOMAIN ps : ps[j].teamId # me.teamId /\ ps[j].lane = me.lane}
    IN  IF cands = {} THEN "Unknown"
        ELSE ps[CHOOSE j \in cands : \A h \in cands : j <= h].championName

\* 3.0 per winning sequence and 0.5 per losing one, in units of 0.5
Tally(set) ==
    6 * Cardinality({fk \in set : RecordOf(fk).win})
    + Cardinality({fk \in set : ~RecordOf(fk).win})

\* The pairs of neighbours of a sequence
Pairs(seq) == {<<seq[i], seq[i + 1]>> : i \in 1..(Len(seq) - 1)}

\* What the claim says the general table holds: one edge per champion and pair
\* of neighbours of a trained sequence of that champion, with its tally.
ExpectedGeneralEdges ==
    LET trained == Trained
        keys == UNION {{<<RecordOf(fk).championName, pr[1], pr[2]>> :
                           pr \in Pairs(SequenceOf(fk))} : fk \in trained}
    IN  {<<k[1], k[2], k[3],
           Tally({fk \in trained :
                     /\ RecordOf(fk).championName = k[1]
                     /\ Follows(SequenceOf(fk), k[2], k[3])})>> : k \in keys}

\* The same per direct opponent.
ExpectedSpecificEdges ==
    LET trained == Trained
        keys == UNION {{<<RecordOf(fk).championName, DirectOpponent(fk), pr[1], pr[2]>> :
                           pr \in Pairs(SequenceOf(fk))} : fk \in trained}
    IN  {<<k[1], k[2], k[3], k[4],
           Tally({fk \in trained :
                     /\ RecordOf(fk).championName = k[1]
                     /\ DirectOpponent(fk) = k[2]
                     /\ Follows(SequenceOf(fk), k[3], k[4])})>> : k \in keys}

GeneralWeight(c, a, b) ==
    GetOr(GetOr(GetOr(general_memory, c, EmptyDict), a, EmptyDict), b, 0)

SpecificWeight(c, o, a, b) ==
    GetOr(GetOr(GetOr(GetOr(specific_memory, c, EmptyDict), o, EmptyDict),
                a, EmptyDict), b, 0)

Asked == pc = "ready" /\ query # NoQuery

\* The item lines of the last call: <<name, score>> in the order printed.
Shown == [i \in DOMAIN printed |-> <<printed[i].name, printed[i].score>>]

\* The item lines a traversal of table t gives.
WalkLines(t) ==
    LET walk == GreedyPath(program, t) IN
    [i \in DOMAIN walk.path |->
        <<GetItemName(walk.path[i], item_data), walk.scores[i]>>]

SpecificTable(c, o) == GetOr(GetOr(specific_memory, c, EmptyDict), o, EmptyDict)

GeneralTable(c) == GetOr(general_memory, c, EmptyDict)

\* the table has at least one edge leaving START
HasStartEdge(t) == Has(t, "START") /\ Get(t, "START") # EmptyDict

UsesSpecific == query.enemy_champ # NoOpponent
                /\ HasStartEdge(SpecificTable(query.my_champ, query.enemy_champ))

UsesGeneral == ~UsesSpecific /\ HasStartEdge(GeneralTable(query.my_champ))

\* C4 as claimed: the build shown comes from one table only, the specific
\* table when it has an edge leaving START, otherwise the general table.
C4_ExactlyOneTable ==
    Asked =>
        /\ UsesSpecific =>
              Shown = WalkLines(SpecificTable(query.my_champ, query.enemy_champ))
        /\ UsesGeneral => Shown = WalkLines(GeneralTable(query.my_champ))

\* C4 (amended): markov_trainer.py shows and returns the traversal of one
\* table, the specific table of (champion, opponent) when it has an edge
\* leaving START and otherwise the general table of the champion; marko.py
\* always shows the traversal of the general table first and then, in
\* addition, that of the specific table when it has an edge leaving START.
C4_TableSelection ==
    Asked =>
        LET spec_walk == WalkLines(SpecificTable(query.my_champ, query.enemy_champ))
            gen_walk == WalkLines(GeneralTable(query.my_champ))
        IN
        /\ program = "markov_trainer" =>
              /\ UsesSpecific =>
                    /\ Shown = spec_walk
                    /\ messages = <<"SPECIFIC">>
                    /\ returned.path = GreedyPath(program,
                          SpecificTable(query.my_champ, query.enemy_champ)).path
              /\ UsesGeneral =>
                    /\ Shown = gen_walk
                    /\ messages = <<"GENERAL">>
                    /\ returned.path =
                          GreedyPath(program, GeneralTable(query.my_champ)).path
        /\ program = "marko" =>
              /\ (HasStartEdge(GeneralTable(query.my_champ)) /\ UsesSpecific) =>
                    Shown = gen_walk \o spec_walk
              /\ UsesGeneral => Shown = gen_walk

\* A query for which both tables hold a build, and the two builds differ.
C4_Witness ==
    /\ Asked
    /\ UsesSpecific
    /\ HasStartEdge(GeneralTable(query.my_champ))
    /\ WalkLines(SpecificTable(query.my_champ, query.enemy_champ))
          # WalkLines(GeneralTable(query.my_champ))

\* C8: a query for a champion with general data and no specific data for the
\* opponent shows and returns what the query without opponent gives.
C8_Fallback ==
    (Asked /\ UsesGeneral) =>
        LET none == RecommendBuild(program, specific_memory, general_memory,
                                   query.my_champ, NoOpponent, item_data)
        IN  /\ returned = none.returned
            /\ Shown = [i \in DOMAIN none.printed |->
                           <<none.printed[i].name, none.printed[i].score>>]

C8_Witness ==
    /\ Asked
    /\ UsesGeneral
    /\ query.enemy_champ = "Darius"
    /\ Len(printed) = 2

\* C9: a query for a champion that neither table knows shows no item, says
\* that there is no data and returns nothing.
C9_NoData ==
    (Asked /\ ~Has(general_memory, query.my_champ)
           /\ GetOr(specific_memory, query.my_champ, EmptyDict) = EmptyDict) =>
        /\ returned = NoReturn
        /\ printed = <<>>
        /\ messages # <<>>
        /\ messages[Len(messages)] = "NODATA"

C9_Witness ==
    /\ Asked
    /\ query.my_champ = "Teemo"
    /\ general_memory # EmptyDict
    /\ returned = NoReturn

(***************************************************************************)
(* SpecGreedy: the traversal loop, one iteration at a time, on every small *)
(* table and on chains longer than the loop                                *)
(***************************************************************************)
MaxChain == 7

ItemNodes == {"1", "3"}

\* a loss and a win
EdgeWeights == {1, 6}

Entries == {<<k, w>> : k \in ItemNodes, w \in EdgeWeights}

\* the dicts of at most two destinations, in either insertion order
OptionDicts ==
    {<<>>} \cup {<<e>> : e \in Entries}
           \cup {<<p[1], p[2]>> : p \in {q \in Entries \X Entries : q[1][1] # q[2][1]}}

SourceOrder == <<"START", "1", "3">>

TableOf(f) ==
    LET all == [i \in DOMAIN SourceOrder |-> <<SourceOrder[i], f[SourceOrder[i]].opts>>]
        Present(e) == f[e[1]].present
    IN  SelectSeq(all, Present)

\* Every table over START and two identifiers, self-loops and cycles included.
\* No edge enters START: it is the sentinel, never a purchase.
SmallTables ==
    {TableOf(f) : f \in {g \in [ItemNodes \cup {"START"} ->
                                   [present : BOOLEAN, opts : OptionDicts]] :
                            \A n \in DOMAIN g : g[n].present \/ g[n].opts = <<>>}}

\* START -> "11" -> "12" -> ... : n items in a row
Chain(n) ==
    [i \in 1..n |-> <<IF i = 1 THEN "START" ELSE Str(9 + i), << <<Str(10 + i), 6>> >> >>]

ChainTables == {Chain(n) : n \in 1..MaxChain}

\* The catalog of the other specifications, the same catalog with item 3
\* under the name of item 1, and the empty catalog of a failed download.
Renamed ==
    {e \in Catalog : e.id # "3"}
    \cup {[id |-> "3", keys |-> {"name", "tags"}, name |-> "F1",
           tags |-> {}, into |-> <<>>, gold |-> 2000]}

GreedyCatalogs == {Catalog, Renamed, {}}

GreedyInit ==
    /\ item_data \in GreedyCatalogs
    /\ program \in {"markov_trainer", "marko"}
    /\ transitions \in SmallTables \cup ChainTables
    /\ current_item = "START"
    /\ visited = {}
    /\ build_path = <<>>
    /\ scores = <<>>
    /\ loop_i = 1
    /\ pc = "walk"
    /\ TrainIdle /\ QueryIdle /\ FinalIdle /\ SeqIdle /\ LifeIdle /\ TwinIdle

\* what the traversal hands back once the loop is left
WalkResult ==
    IF program = "markov_trainer"
    THEN [is_none |-> FALSE, path |-> build_path]
    ELSE NoReturn

\* An iteration that selects an item: it prints its line and moves on.
WalkStep ==
    /\ pc = "walk"
    /\ loop_i <= MaxItems
    /\ LET c == Choice(program, transitions, current_item, visited) IN
       /\ ~c.stop
       /\ printed' = Append(printed, [section |-> "BUILD",
                                      name |-> GetItemName(c.item, item_data),
                                      score |-> c.score])
       /\ build_path' = Append(build_path, c.item)
       /\ scores' = Append(scores, c.score)
       /\ visited' = visited \cup {c.item}
       /\ current_item' = c.item
    /\ loop_i' = loop_i + 1
    /\ UNCHANGED <<item_data, program, pc, transitions, query, returned, messages>>
    /\ UNCHANGED <<trainVars, finalVars, seqVars, lifeVars, twinVars>>

\* An iteration that breaks.
WalkBreak ==
    /\ pc = "walk"
    /\ loop_i <= MaxItems
    /\ Choice(program, transitions, current_item, visited).stop
    /\ pc' = "walk_done"
    /\ returned' = WalkResult
    /\ UNCHANGED <<item_data, program, transitions, query, printed, messages>>
    /\ UNCHANGED <<current_item, visited, build_path, scores, loop_i>>
    /\ UNCHANGED <<trainVars, finalVars, seqVars, lifeVars, twinVars>>

\* range(1, 7) is exhausted.
WalkEnd ==
    /\ pc = "walk"
    /\ loop_i > MaxItems
    /\ pc' = "walk_done"
    /\ returned' = WalkResult
    /\ UNCHANGED <<item_data, program, transitions, query, printed, messages>>
    /\ UNCHANGED <<current_item, visited, build_path, scores, loop_i>>
    /\ UNCHANGED <<trainVars, finalVars, seqVars, lifeVars, twinVars>>

GreedyNext == WalkStep \/ WalkBreak \/ WalkEnd

SpecGreedy == GreedyInit /\ [][GreedyNext]_vars

\* The destinations of node n in the table walked, as positions of its dict.
Options(n) == GetOr(transitions, n, EmptyDict)

NodeBefore(k) == IF k = 1 THEN "START" ELSE build_path[k - 1]

ChosenBefore(k) == {build_path[j] : j \in 1..(k - 1)}

\* C5: the k-th item chosen is a destination of the node the traversal stands
\* on, not chosen before, of the highest weight among those not chosen before;
\* at most 6 items are chosen, and the traversal ends with fewer than 6 only
\* at a node whose destinations (if any) have all been chosen.
C5_GreedyChoice ==
    /\ Len(build_path) <= 6
    /\ \A k \in DOMAIN build_path :
          LET opts == Options(NodeBefore(k))
              free == {i \in DOMAIN opts : opts[i][1] \notin ChosenBefore(k)}
          IN  \E i \in free :
                  /\ opts[i][1] = build_path[k]
                  /\ opts[i][2] = scores[k]
                  /\ \A j \in free : opts[j][2] <= opts[i][2]
    /\ (pc = "walk_done" /\ Len(build_path) < 6) =>
          Keys(Options(NodeBefore(Len(build_path) + 1))) \subseteq SeqToSet(build_path)
    /\ pc = "walk_done" => build_path = GreedyPath(program, transitions).path

\* The second choice is made at a node whose heaviest destination is taken.
C5_Witness ==
    /\ pc = "walk_done"
    /\ build_path = <<"1", "3">>
    /\ Options("1") = << <<"1", 6>>, <<"3", 1>> >>

\* C10: on every table, cycles and self-loops included, the traversal has made
\* one selection per iteration begun, at most 6 in all, has selected no node
\* twice (the nodes selected are the visited set), and has ended once the
\* sixth is made.
C10_Terminates ==
    /\ loop_i \in 1..7
    /\ Len(build_path) = loop_i - 1
    /\ Len(build_path) <= 6
    /\ \A j, k \in DOMAIN build_path : j # k => build_path[j] # build_path[k]
    /\ visited = SeqToSet(build_path)
    /\ current_item = NodeBefore(Len(build_path) + 1)

\* A table with a self-loop and a cycle, walked to its end.
C10_Witness ==
    /\ pc = "walk_done"
    /\ Has(Options("1"), "1")
    /\ Has(Options("1"), "3")
    /\ Has(Options("3"), "1")
    /\ build_path = <<"1", "3">>

\* The chain of seven items is cut after six.
C10_WitnessCap ==
    /\ pc = "walk_done"
    /\ Len(build_path) = 6
    /\ Has(transitions, build_path[6])

DistinctNames ==
    \A j, k \in DOMAIN build_path :
        j # k => GetItemName(build_path[j], item_data)
                    # GetItemName(build_path[k], item_data)

C7_ReturnsNames ==
    pc = "walk_done" =>
        /\ ~returned.is_none
        /\ returned.path =
              [i \in DOMAIN build_path |-> GetItemName(build_path[i], item_data)]

\* C7 (amended): the lines shown carry, in the order chosen, the catalog name
\* of each item chosen, and "ID <identifier>" for an identifier without catalog
\* entry; the list markov_trainer.py returns holds the identifiers themselves
\* and marko.py returns nothing; the traversal is the same whatever the catalog.
C7_ShowsNames ==
    /\ Len(printed) = Len(build_path)
    /\ \A i \in DOMAIN printed :
          /\ \A e \in item_data :
                (e.id = build_path[i] /\ "name" \in e.keys) => printed[i].name = e.name
          /\ (\A e \in item_data : e.id # build_path[i]) =>
                printed[i].name = "ID " \o build_path[i]
    /\ pc = "walk_done" =>
          /\ program = "markov_trainer" =>
                (~returned.is_none /\ returned.path = build_path)
          /\ program = "marko" => returned.is_none
          /\ build_path = GreedyPath(program, transitions).path

\* An item of the catalog followed by an identifier the catalog lacks.
C7_Witness ==
    /\ pc = "walk_done"
    /\ program = "markov_trainer"
    /\ item_data = {}
    /\ returned.path = <<"3", "1">>
    /\ printed[1].name = "ID 3"

(***************************************************************************)
(* SpecMatch: the participant loop of train() on one match file of three   *)
(* records, one participant per step, on tables that are empty or already  *)
(* hold the edges of an earlier file                                       *)
(***************************************************************************)
\* the tables train() adds to: the temporary ones in marko.py, the advisor's
\* own in markov_trainer.py
TrainingSpecific == IF program = "marko" THEN temp_specific ELSE specific_memory

TrainingGeneral == IF program = "marko" THEN temp_general ELSE general_memory

\* Garen, first record of the match
FirstRecords ==
    {Participant("Garen", 100, l, w, list) :
        l \in {"TOP", "NONE"}, w \in BOOLEAN, list \in {ListA, ListB}}

\* Darius, on either team
SecondRecords ==
    {Participant("Darius", t, l, TRUE, ListA) : t \in {100, 200}, l \in {"TOP", "MIDDLE"}}
    \cup {Incomplete("Darius", 200, "TOP", TRUE),
          Participant("Darius", 200, "NONE", FALSE, ListB)}

\* Teemo, on the other team
ThirdRecords ==
    {Participant("Teemo", 200, l, w, ListB) :
        l \in {"TOP", "MIDDLE", "NONE"}, w \in BOOLEAN}

ThreeRecordMatches ==
    {[readable |-> TRUE, participants |-> <<a, b, c>>] :
        a \in FirstRecords, b \in SecondRecords, c \in ThirdRecords}

\* an earlier file of the folder: Garen won against Darius
EarlierMatch ==
    [readable |-> TRUE,
     participants |-> <<Participant("Garen", 100, "TOP", TRUE, ListB),
                        Participant("Darius", 200, "TOP", FALSE, ListA)>>]

NoTables == [specific |-> EmptyDict, general |-> EmptyDict]

EarlierTables == TrainOnFile(NoTables, EarlierMatch, Catalog)

MatchInit ==
    /\ item_data = Catalog
    /\ program \in {"markov_trainer", "marko"}
    /\ pc = "participants"
    /\ corpus \in {<<m>> : m \in ThreeRecordMatches}
    /\ \E earlier \in {NoTables, EarlierTables} :
          IF program = "marko"
          THEN /\ temp_specific = earlier.specific
               /\ temp_general = earlier.general
               /\ specific_memory = EmptyDict
               /\ general_memory = EmptyDict
          ELSE /\ specific_memory = earlier.specific
               /\ general_memory = earlier.general
               /\ temp_specific = EmptyDict
               /\ temp_general = EmptyDict
    /\ brain_file = NoBrainFile
    /\ QueryIdle /\ GreedyIdle /\ FinalIdle /\ SeqIdle /\ LifeIdle /\ TwinIdle

\* the records of the match being read
MatchRecords == corpus[1].participants

\* what the loop body does to the tables for the next participant
NextParticipant ==
    ProcessParticipant([specific |-> TrainingSpecific, general |-> TrainingGeneral],
                       MatchRecords, part_idx + 1, item_data)

\* for p in participants: one iteration that ends normally (or by continue)
ParticipantStep ==
    /\ pc = "participants"
    /\ part_idx < Len(MatchRecords)
    /\ ~NextParticipant.raised
    /\ IF program = "marko"
       THEN /\ temp_specific' = NextParticipant.specific
            /\ temp_general' = NextParticipant.general
            /\ UNCHANGED <<specific_memory, general_memory>>
       ELSE /\ specific_memory' = NextParticipant.specific
            /\ general_memory' = NextParticipant.general
            /\ UNCHANGED <<temp_specific, temp_general>>
    /\ part_idx' = part_idx + 1
    /\ UNCHANGED <<item_data, program, pc, corpus, brain_file, files, loaded, trains>>
    /\ UNCHANGED <<queryVars, greedyVars, finalVars, seqVars, twinVars>>

\* one iteration that raises: "except Exception: pass" ends the work on the file
ParticipantRaise ==
    /\ pc = "participants"
    /\ part_idx < Len(MatchRecords)
    /\ NextParticipant.raised
    /\ pc' = "file_done"
    /\ UNCHANGED <<item_data, program, trainVars, lifeVars>>
    /\ UNCHANGED <<queryVars, greedyVars, finalVars, seqVars, twinVars>>

\* the participant loop is exhausted
ParticipantsEnd ==
    /\ pc = "participants"
    /\ part_idx = Len(MatchRecords)
    /\ pc' = "file_done"
    /\ UNCHANGED <<item_data, program, trainVars, lifeVars>>
    /\ UNCHANGED <<queryVars, greedyVars, finalVars, seqVars, twinVars>>

MatchNext == ParticipantStep \/ ParticipantRaise \/ ParticipantsEnd

SpecMatch == MatchInit /\ [][MatchNext]_vars

\* Reading an edge weight of a table (0 when the edge is absent)
EdgeWeightG(g, c, a, b) ==
    GetOr(GetOr(GetOr(g, c, EmptyDict), a, EmptyDict), b, 0)

EdgeWeightS(sp, c, o, a, b) ==
    GetOr(GetOr(GetOr(GetOr(sp, c, EmptyDict), o, EmptyDict), a, EmptyDict), b, 0)

\* the loop is about to run its body for record k
AtParticipant(k) ==
    pc = "participants" /\ part_idx < Len(MatchRecords) /\ k = part_idx + 1

\* the records of the other team that share the lane of record k
Candidates(k) ==
    {j \in DOMAIN MatchRecords :
        /\ MatchRecords[j].teamId # MatchRecords[k].teamId
        /\ MatchRecords[j].lane = MatchRecords[k].lane}

FirstCandidate(k) == CHOOSE j \in Candidates(k) : \A h \in Candidates(k) : j <= h

\* record k has a lane of the list and its purchase list
Trainable(k) ==
    /\ MatchRecords[k].lane \in ValidLanes
    /\ "item_purchases" \in MatchRecords[k].keys

\* The step adds the weight of record k to every pair of neighbours of its
\* build sequence, in the general table of its champion and in the specific
\* table under `enemy`, and changes no other edge.
Gains(k, enemy) ==
    LET p == MatchRecords[k]
        seq == BuildSequence(p.item_purchases, item_data)
        w == IF p.win THEN WinWeight ELSE LossWeight
    IN  /\ \A pr \in Pairs(seq) :
              /\ EdgeWeightG(TrainingGeneral', p.championName, pr[1], pr[2])
                   = EdgeWeightG(TrainingGeneral, p.championName, pr[1], pr[2]) + w
              /\ EdgeWeightS(TrainingSpecific', p.championName, enemy, pr[1], pr[2])
                   = EdgeWeightS(TrainingSpecific, p.championName, enemy, pr[1], pr[2]) + w
        /\ \A e \in GeneralEdges(TrainingGeneral') :
              (e[1] # p.championName \/ <<e[2], e[3]>> \notin Pairs(seq))
                 => e \in GeneralEdges(TrainingGeneral)
        /\ \A e \in SpecificEdges(TrainingSpecific') :
              (e[1] # p.championName \/ e[2] # enemy \/ <<e[3], e[4]>> \notin Pairs(seq))
                 => e \in SpecificEdges(TrainingSpecific)

TablesUnchanged ==
    /\ TrainingGeneral' = TrainingGeneral
    /\ TrainingSpecific' = TrainingSpecific

C13_DirectOpponent ==
    [][\A k \in 1..3 :
          (AtParticipant(k) /\ Trainable(k) /\ Candidates(k) # {})
             => Gains(k, MatchRecords[FirstCandidate(k)].championName)]_vars

\* Garen faces Darius (second record) and Teemo (third record) on his lane.
C13_Witness ==
    /\ part_idx >= 1
    /\ Candidates(1) = {2, 3}
    /\ EdgeWeightS(TrainingSpecific, "Garen", "Darius", "START", "1") > 0
    /\ EdgeWeightS(TrainingSpecific, "Garen", "Teemo", "START", "1") = 0

\* C14: a participant whose lane is not of the list adds no weight to any
\* table, and the loop goes on with the next record of the match.
C14_InvalidLaneSkipped ==
    [][\A k \in 1..3 :
          (AtParticipant(k) /\ MatchRecords[k].lane \notin ValidLanes)
             => /\ TablesUnchanged
                /\ pc' = "participants"
                /\ part_idx' = k]_vars

\* Garen without a lane left the empty tables empty, Darius after him was
\* trained.
C14_Witness ==
    /\ part_idx = 2
    /\ MatchRecords[1].lane = "NONE"
    /\ ~Has(TrainingGeneral, "Garen")
    /\ EdgeWeightG(TrainingGeneral, "Darius", "START", "1") = WinWeight

AllPositive ==
    /\ \A e \in GeneralEdges(TrainingGeneral) : e[4] > 0
    /\ \A e \in SpecificEdges(TrainingSpecific) : e[5] > 0

NoEdgeLowered ==
    /\ \A e \in GeneralEdges(TrainingGeneral) :
          EdgeWeightG(TrainingGeneral', e[1], e[2], e[3]) >= e[4]
    /\ \A e \in SpecificEdges(TrainingSpecific) :
          EdgeWeightS(TrainingSpecific', e[1], e[2], e[3], e[4]) >= e[5]

\* C20: in every state reached by training, every edge of the general and of
\* the specific table has a strictly positive weight, and no step of the
\* participant loop lowers the weight of an edge.
C20_PositiveMonotone == [](AllPositive) /\ [][NoEdgeLowered]_vars

\* An edge of the earlier file raised by a loss of the same champion.
C20_Witness ==
    /\ part_idx >= 1
    /\ ~MatchRecords[1].win
    /\ EdgeWeightG(TrainingGeneral, "Garen", "START", "1") = WinWeight + LossWeight
    /\ EdgeWeightS(TrainingSpecific, "Garen", "Darius", "1", "3") = WinWeight + LossWeight

(***************************************************************************)
(* train() as a whole, and load_brain()                                    *)
(***************************************************************************)
\* for filepath in files, from file i on
RECURSIVE TrainLoop(_, _, _, _)
TrainLoop(mem, file_list, i, item_data_map) ==
    IF i > Len(file_list) THEN mem
    ELSE TrainLoop(TrainOnFile(mem, file_list[i], item_data_map), file_list, i + 1,
                   item_data_map)

\* train() that always starts from empty tables
TrainStartFresh(prog, specific, general) == NoTables

\* train() that adds to the tables the advisor already holds
TrainStartKeepsTables(prog, specific, general) ==
    [specific |-> specific, general |-> general]

\* train() that adds to tables shared with the other run
TrainStartShared(prog, specific, general) ==
    [specific |-> twin_specific, general |-> twin_general]

\* The tables the file loop adds to: marko.py's train() creates empty
\* temporary tables, markov_trainer.py's adds to the advisor's tables.
TrainStart(prog, specific, general) ==
    IF prog = "marko" THEN NoTables
    ELSE [specific |-> specific, general |-> general]

\* train() up to (not including) save_brain(): the tables of the loop and the
\* tables the advisor holds afterwards (marko.py: through JSON).
TrainCall(prog, specific, general, file_list, item_data_map) ==
    LET out == TrainLoop(TrainStart(prog, specific, general), file_list, 1,
                         item_data_map)
    IN  IF prog = "marko"
        THEN [temp_specific |-> out.specific, temp_general |-> out.general,
              specific |-> JsonLoads(JsonDumps(out.specific, SpecificDepth),
                                     SpecificDepth),
              general |-> JsonLoads(JsonDumps(out.general, GeneralDepth),
                                    GeneralDepth)]
        ELSE [temp_specific |-> EmptyDict, temp_general |-> EmptyDict,
              specific |-> out.specific, general |-> out.general]

\* load_brain() without its try block: an exception reaches the caller
LoadBrainUncaught(file, specific, general) ==
    IF ~file.exists
    THEN [result |-> "False", specific |-> specific, general |-> general]
    ELSE IF file.kind # "object" \/ "specific" \notin file.keys
    THEN [result |-> "raised", specific |-> specific, general |-> general]
    ELSE IF "general" \notin file.keys
    THEN [result |-> "raised",
          specific |-> JsonLoads(file.specific, SpecificDepth), general |-> general]
    ELSE [result |-> "True",
          specific |-> JsonLoads(file.specific, SpecificDepth),
          general |-> JsonLoads(file.general, GeneralDepth)]

\* load_brain(): what it returns and the tables the advisor holds afterwards.
\* open() and json.load() raise on a file that cannot be read or is not JSON;
\* data["specific"] is assigned before data["general"] is looked up.
LoadBrain(file, specific, general) ==
    IF ~file.exists
    THEN [result |-> "False", specific |-> specific, general |-> general]
    ELSE IF file.kind # "object" \/ "specific" \notin file.keys
    THEN [result |-> "False", specific |-> specific, general |-> general]
    ELSE IF "general" \notin file.keys
    THEN [result |-> "False",
          specific |-> JsonLoads(file.specific, SpecificDepth), general |-> general]
    ELSE [result |-> "True",
          specific |-> JsonLoads(file.specific, SpecificDepth),
          general |-> JsonLoads(file.general, GeneralDepth)]

(***************************************************************************)
(* SpecBrain: runs of marko.py on a folder of match files and a brain file *)
(* left by an earlier run: load or train at start-up, queries, retrain,    *)
(* save_brain() in its two writes, interruption and restart                *)
(***************************************************************************)
MaxTrains == 2

\* a second file: Garen lost against Darius
LaterMatch ==
    [readable |-> TRUE,
     participants |-> <<Participant("Garen", 100, "TOP", FALSE, ListA),
                        Participant("Darius", 200, "TOP", TRUE, ListB)>>]

BrainMatchFiles == {EarlierMatch, LaterMatch, UnreadableFile}

Folders == UNION {[1..n -> BrainMatchFiles] : n \in 0..MaxFiles}

\* a file that exists and whose content is not a JSON object with tables:
\* kind "unreadable" (open or decoding fails), "invalid" (not JSON),
\* "partial" (the file open(.., 'w') has truncated, json.dump not finished)
BrokenFile(kind) ==
    [exists |-> TRUE, kind |-> kind, keys |-> {}, specific |-> NoText,
     general |-> NoText]

\* a JSON object that lacks "general", "specific" or both
IncompleteObject(keys) ==
    [exists |-> TRUE, kind |-> "object", keys |-> keys,
     specific |-> IF "specific" \in keys
                  THEN JsonDumps(EarlierTables.specific, SpecificDepth) ELSE NoText,
     general |-> IF "general" \in keys
                 THEN JsonDumps(EarlierTables.general, GeneralDepth) ELSE NoText]

\* what an earlier run may have left at BRAIN_FILE
InitialBrainFiles ==
    {NoBrainFile, BrokenFile("unreadable"), BrokenFile("invalid"),
     Snapshot(EarlierTables.specific, EarlierTables.general),
     Snapshot(EmptyDict, EmptyDict)}
    \cup {IncompleteObject(k) : k \in {{}, {"specific"}, {"general"}}}

BrainInit ==
    /\ item_data = Catalog
    /\ program = "marko"
    /\ pc = "start"
    /\ files \in Folders
    /\ brain_file \in InitialBrainFiles
    /\ corpus = <<>>
    /\ specific_memory = EmptyDict
    /\ general_memory = EmptyDict
    /\ temp_specific = EmptyDict
    /\ temp_general = EmptyDict
    /\ part_idx = 0
    /\ loaded = "none"
    /\ trains = 0
    /\ QueryIdle /\ GreedyIdle /\ FinalIdle /\ SeqIdle /\ TwinIdle

\* main(): the brain file exists, ai.load_brain() is called and its result is
\* dropped; an exception would end main().
BrainLoad ==
    /\ pc = "start"
    /\ brain_file.exists
    /\ LET out == LoadBrain(brain_file, specific_memory, general_memory)
       IN  /\ loaded' = out.result
           /\ specific_memory' = out.specific
           /\ general_memory' = out.general
           /\ pc' = IF out.result = "raised" THEN "exited" ELSE "ready"
    /\ UNCHANGED <<item_data, program, corpus, temp_specific, temp_general,
                   brain_file, files, part_idx, trains>>
    /\ UNCHANGED <<queryVars, greedyVars, finalVars, seqVars, twinVars>>

\* train() from its first line to the call of save_brain()
TrainToSave ==
    /\ LET out == TrainCall(program, specific_memory, general_memory, files,
                            item_data)
       IN  /\ temp_specific' = out.temp_specific
           /\ temp_general' = out.temp_general
           /\ specific_memory' = out.specific
           /\ general_memory' = out.general
    /\ pc' = "save_open"
    /\ UNCHANGED <<item_data, program, corpus, brain_file, lifeVars>>
    /\ UNCHANGED <<queryVars, greedyVars, finalVars, seqVars, twinVars>>

\* main(): no brain file, ai.train()
BrainFirstTrain ==
    /\ pc = "start"
    /\ ~brain_file.exists
    /\ TrainToSave

\* the input 'retrain': ai.train()
BrainRetrain ==
    /\ pc = "ready"
    /\ trains < MaxTrains
    /\ TrainToSave

\* save_brain(): open(BRAIN_FILE, 'w') truncates the file at its final path
SaveOpen ==
    /\ pc = "save_open"
    /\ brain_file' = BrokenFile("partial")
    /\ pc' = "save_dump"
    /\ UNCHANGED <<item_data, program, corpus, specific_memory, general_memory,
                   temp_specific, temp_general, lifeVars>>
    /\ UNCHANGED <<queryVars, greedyVars, finalVars, seqVars, twinVars>>

\* open(BRAIN_FILE, 'w') may raise on a path that could not be read either;
\* nothing in train() or main() catches it.
SaveOpenFails ==
    /\ pc = "save_open"
    /\ brain_file.kind = "unreadable"
    /\ pc' = "exited"
    /\ UNCHANGED <<item_data, program, trainVars, lifeVars>>
    /\ UNCHANGED <<queryVars, greedyVars, finalVars, seqVars, twinVars>>

\* save_brain(): json.dump(data, f) and the close of the with block; train()
\* returns to the input loop.
SaveDump ==
    /\ pc = "save_dump"
    /\ brain_file' = Snapshot(specific_memory, general_memory)
    /\ pc' = "ready"
    /\ trains' = trains + 1
    /\ UNCHANGED <<item_data, program, corpus, specific_memory, general_memory,
                   temp_specific, temp_general, files, part_idx, loaded>>
    /\ UNCHANGED <<queryVars, greedyVars, finalVars, seqVars, twinVars>>

\* the process is interrupted during save_brain() (killed, power loss)
Interrupt ==
    /\ pc \in {"save_open", "save_dump"}
    /\ pc' = "exited"
    /\ UNCHANGED <<item_data, program, trainVars, lifeVars>>
    /\ UNCHANGED <<queryVars, greedyVars, finalVars, seqVars, twinVars>>

\* the input 'q'
Quit ==
    /\ pc = "ready"
    /\ pc' = "exited"
    /\ UNCHANGED <<item_data, program, trainVars, lifeVars>>
    /\ UNCHANGED <<queryVars, greedyVars, finalVars, seqVars, twinVars>>

\* marko.py is started again: a new advisor, the files as they were left
Restart ==
    /\ pc = "exited"
    /\ pc' = "start"
    /\ specific_memory' = EmptyDict
    /\ general_memory' = EmptyDict
    /\ temp_specific' = EmptyDict
    /\ temp_general' = EmptyDict
    /\ loaded' = "none"
    /\ trains' = 0
    /\ query' = NoQuery
    /\ returned' = NoReturn
    /\ printed' = <<>>
    /\ messages' = <<>>
    /\ UNCHANGED <<item_data, program, corpus, brain_file, files, part_idx>>
    /\ UNCHANGED <<greedyVars, finalVars, seqVars, twinVars>>

BrainNext ==
    \/ BrainLoad
    \/ BrainFirstTrain
    \/ BrainRetrain
    \/ SaveOpen
    \/ SaveOpenFails
    \/ SaveDump
    \/ Interrupt
    \/ Quit
    \/ Restart
    \/ \E c \in QueryChamps, e \in QueryEnemies : Recommend(c, e)

SpecBrain == BrainInit /\ [][BrainNext]_vars

\* what a single train() call of a new advisor yields on the folder
FreshTables == TrainCall("marko", EmptyDict, EmptyDict, files, item_data)

\* C16: in marko.py, after one or more train() calls of the same advisor on an
\* unchanged folder, whatever was loaded or trained before, the tables in
\* memory and the saved snapshot are those of a single train() call of a new
\* advisor.
C16_RetrainFromScratch ==
    (pc = "ready" /\ trains >= 1) =>
        /\ specific_memory = FreshTables.specific
        /\ general_memory = FreshTables.general
        /\ brain_file = Snapshot(FreshTables.specific, FreshTables.general)

\* A snapshot of an earlier folder was loaded, then train() ran twice.
C16_Witness ==
    /\ pc = "ready"
    /\ loaded = "True"
    /\ trains = 2
    /\ files = <<EarlierMatch, LaterMatch>>
    /\ EdgeWeightG(general_memory, "Garen", "START", "1") = WinWeight + LossWeight
    /\ EdgeWeightG(JsonLoads(brain_file.general, GeneralDepth), "Garen", "START", "1")
          = WinWeight + LossWeight

\* a file load_brain() cannot take both tables from
Unusable(file) ==
    \/ ~file.exists
    \/ file.kind # "object"
    \/ {"specific", "general"} \ file.keys # {}

\* C17: load_brain() on a file that is absent, unreadable, not valid JSON or
\* without its 'specific' or 'general' key returns False and raises nothing:
\* main() goes on to its input loop.
C17_LoadFailsClosed ==
    [][/\ LoadBrain(NoBrainFile, specific_memory, general_memory).result = "False"
       /\ (pc = "start" /\ brain_file.exists /\ Unusable(brain_file))
             => (loaded' = "False" /\ pc' = "ready")]_vars

\* load_brain() has returned False on a JSON object that holds 'specific' only.
C17_Witness ==
    /\ pc = "ready"
    /\ trains = 0
    /\ loaded = "False"
    /\ brain_file = IncompleteObject({"specific"})

\* C18 as stated: a snapshot that fails to parse is treated like a missing
\* one, so no query is answered at start-up before a training run has
\* replaced it.
C18_CorruptTriggersTraining ==
    (pc = "ready" /\ query # NoQuery /\ brain_file.kind \in {"invalid", "partial"})
        => trains >= 1

\* C19 as stated: the snapshot is written atomically, so when a run that had
\* loaded a complete snapshot is interrupted in save_brain(), the file at the
\* final path is a complete snapshot (the previous one or the new one).
C19_AtomicSnapshot ==
    (pc = "exited" /\ loaded = "True") =>
        /\ brain_file.kind = "object"
        /\ brain_file.keys = {"specific", "general"}

(***************************************************************************)
(* SpecTwin: two training runs of new advisors on the same folder, in the  *)
(* same file order, with the same catalog                                  *)
(***************************************************************************)
TwinFolders == UNION {[1..n -> Files] : n \in 0..MaxFiles}

TwinInit ==
    /\ item_data = Catalog
    /\ program \in {"markov_trainer", "marko"}
    /\ pc = "start"
    /\ twin_pc = "start"
    /\ files \in TwinFolders
    /\ twin_specific = EmptyDict
    /\ twin_general = EmptyDict
    /\ TrainIdle
    /\ part_idx = 0
    /\ loaded = "none"
    /\ trains = 0
    /\ QueryIdle /\ GreedyIdle /\ FinalIdle /\ SeqIdle

\* the first run: train() of a new advisor
FirstRun ==
    /\ pc = "start"
    /\ LET out == TrainCall(program, specific_memory, general_memory, files,
                            item_data)
       IN  /\ specific_memory' = out.specific
           /\ general_memory' = out.general
           /\ temp_specific' = out.temp_specific
           /\ temp_general' = out.temp_general
    /\ pc' = "ready"
    /\ UNCHANGED <<item_data, program, corpus, brain_file, lifeVars, twinVars>>
    /\ UNCHANGED <<queryVars, greedyVars, finalVars, seqVars>>

\* the second run: train() of another new advisor
SecondRun ==
    /\ twin_pc = "start"
    /\ LET out == TrainCall(program, twin_specific, twin_general, files, item_data)
       IN  /\ twin_specific' = out.specific
           /\ twin_general' = out.general
    /\ twin_pc' = "ready"
    /\ UNCHANGED <<item_data, program, pc, trainVars, lifeVars>>
    /\ UNCHANGED <<queryVars, greedyVars, finalVars, seqVars>>

TwinNext == FirstRun \/ SecondRun

SpecTwin == TwinInit /\ [][TwinNext]_vars

SavedTables ==
    {[specific |-> FreshTables.specific, general |-> FreshTables.general],
     EarlierTables, NoTables}

C29_FailedLoadChangesNothing ==
    [][(pc = "start" /\ loaded' = "False")
          => (specific_memory' = specific_memory /\ general_memory' = general_memory)]_vars

(***************************************************************************)
(* Claims relating the two tables during the participant loop of SpecMatch *)
(***************************************************************************)
\* C21: the specific table refines the general table of the same champion:
\* every edge of specific[c][o] is an edge of general[c] whose weight is at
\* least as large; in particular a champion with a specific edge leaving START
\* has a general edge leaving START.
C21_SpecificRefinesGeneral ==
    \A e \in SpecificEdges(TrainingSpecific) :
        /\ \E g \in GeneralEdges(TrainingGeneral) :
              g[1] = e[1] /\ g[2] = e[3] /\ g[3] = e[4] /\ e[5] <= g[4]
        /\ e[3] = "START" =>
              /\ Has(TrainingGeneral, e[1])
              /\ Has(Get(TrainingGeneral, e[1]), "START")
              /\ Len(Get(Get(TrainingGeneral, e[1]), "START")) > 0

\* Garen won against Darius in the earlier file and wins alone on his lane in
\* this one: the specific edge under Darius is strictly lighter than the
\* general edge.
C21_Witness ==
    /\ pc = "file_done"
    /\ EdgeWeightS(TrainingSpecific, "Garen", "Darius", "START", "1") = WinWeight
    /\ EdgeWeightG(TrainingGeneral, "Garen", "START", "1") = 2 * WinWeight

\* the weights of the edge (a, b) under the opponent keys i.. of specific[c]
RECURSIVE OpponentSum(_, _, _, _)
OpponentSum(opponents, a, b, i) ==
    IF i > Len(opponents) THEN 0
    ELSE GetOr(GetOr(opponents[i][2], a, EmptyDict), b, 0)
           + OpponentSum(opponents, a, b, i + 1)

\* C27: for every champion and edge, the general weight is the sum of the
\* specific weights over all opponent keys of the champion, "Unknown"
\* included, and the general table has no edge absent from every specific one.
C27_GeneralIsSumOfSpecific ==
    /\ \A g \in GeneralEdges(TrainingGeneral) :
          /\ g[4] = OpponentSum(GetOr(TrainingSpecific, g[1], EmptyDict), g[2], g[3], 1)
          /\ \E e \in SpecificEdges(TrainingSpecific) :
                e[1] = g[1] /\ e[3] = g[2] /\ e[4] = g[3]
    /\ \A e \in SpecificEdges(TrainingSpecific) :
          EdgeWeightG(TrainingGeneral, e[1], e[3], e[4])
            = OpponentSum(Get(TrainingSpecific, e[1]), e[3], e[4], 1)

\* Garen won against Darius in the earlier file and loses alone on his lane in
\* this one: the general edge is the sum of the edges under Darius and Unknown.
C27_Witness ==
    /\ pc = "file_done"
    /\ EdgeWeightS(TrainingSpecific, "Garen", "Darius", "START", "1") = WinWeight
    /\ EdgeWeightS(TrainingSpecific, "Garen", "Unknown", "START", "1") = LossWeight
    /\ EdgeWeightG(TrainingGeneral, "Garen", "START", "1") = WinWeight + LossWeight

\* C23 as stated: a record with a lane of the list and no 'item_purchases'
\* field is skipped alone: the tables stay as they were and the loop goes on
\* with the next record of the same match.
C23_MalformedSkippedAlone ==
    [][\A k \in 1..3 :
          (AtParticipant(k) /\ MatchRecords[k].lane \in ValidLanes
             /\ "item_purchases" \notin MatchRecords[k].keys)
            => (TablesUnchanged /\ pc' = "participants" /\ part_idx' = k)]_vars

(***************************************************************************)
(* Claims on whole runs of Spec                                            *)
(***************************************************************************)
\* match A of the scenario: Garen wins on TOP against Darius with
\* [C1000, F1, F2]
ScenarioA(m) ==
    /\ m.readable
    /\ m.participants[1] = Participant("Garen", 100, "TOP", TRUE, ListA)
    /\ m.participants[2].lane = "TOP"

\* match B of the scenario: Garen loses on TOP against Darius with [F1, F3]
ScenarioB(m) ==
    /\ m.readable
    /\ m.participants[1] = Participant("Garen", 100, "TOP", FALSE, ListB)
    /\ m.participants[2].lane = "TOP"

ScenarioCorpus ==
    /\ Len(corpus) = 2
    /\ \/ ScenarioA(corpus[1]) /\ ScenarioB(corpus[2])
       \/ ScenarioB(corpus[1]) /\ ScenarioA(corpus[2])

C24_QueryPureRead ==
    [][pc = "ready" =>
          (specific_memory' = specific_memory /\ general_memory' = general_memory)]_vars

(***************************************************************************)
(* SpecRepeat: one markov_trainer.py advisor whose train() is called again *)
(* on an unchanged folder, with queries in between                         *)
(***************************************************************************)
\* Garen alone on his lane (the opponent key is "Unknown")
LoneMatch ==
    [readable |-> TRUE,
     participants |-> <<Participant("Garen", 100, "TOP", TRUE, ListA),
                        Participant("Darius", 200, "NONE", FALSE, ListA)>>]

\* the record of Darius lacks its purchases
CutMatch ==
    [readable |-> TRUE,
     participants |-> <<Participant("Garen", 100, "TOP", FALSE, ListB),
                        Incomplete("Darius", 200, "TOP", TRUE)>>]

RepeatMatchFiles == BrainMatchFiles \cup {LoneMatch, CutMatch}

RepeatFolders == UNION {[1..n -> RepeatMatchFiles] : n \in 0..MaxFiles}

RepeatInit ==
    /\ item_data = Catalog
    /\ program = "markov_trainer"
    /\ pc = "start"
    /\ files \in RepeatFolders
    /\ TrainIdle
    /\ part_idx = 0
    /\ loaded = "none"
    /\ trains = 0
    /\ QueryIdle /\ GreedyIdle /\ FinalIdle /\ SeqIdle /\ TwinIdle

\* ai.train(): the file loop adds to self.specific_memory and
\* self.general_memory as they are
RepeatTrain ==
    /\ pc \in {"start", "ready"}
    /\ trains < MaxTrains
    /\ LET out == TrainCall(program, specific_memory, general_memory, files,
                            item_data)
       IN  /\ specific_memory' = out.specific
           /\ general_memory' = out.general
           /\ temp_specific' = out.temp_specific
           /\ temp_general' = out.temp_general
    /\ trains' = trains + 1
    /\ pc' = "ready"
    /\ UNCHANGED <<item_data, program, corpus, brain_file, files, part_idx, loaded>>
    /\ UNCHANGED <<queryVars, greedyVars, finalVars, seqVars, twinVars>>

RepeatNext ==
    \/ RepeatTrain
    \/ \E c \in QueryChamps, e \in QueryEnemies : Recommend(c, e)

SpecRepeat == RepeatInit /\ [][RepeatNext]_vars

\* the tables of a single train() call of a new advisor on the folder
TrainedOnce == TrainCall("markov_trainer", EmptyDict, EmptyDict, files, item_data)

\* C25: in markov_trainer.py, train() called again on the same advisor over
\* the unchanged folder counts every match again: after the second call every
\* edge weighs exactly twice what it weighed after the first (n times after n
\* calls), and the set of edges is the same.
C25_TrainTwiceDoubles ==
    trains >= 1 =>
        /\ GeneralEdges(general_memory)
             = {<<e[1], e[2], e[3], trains * e[4]>> :
                   e \in GeneralEdges(TrainedOnce.general)}
        /\ SpecificEdges(specific_memory)
             = {<<e[1], e[2], e[3], e[4], trains * e[5]>> :
                   e \in SpecificEdges(TrainedOnce.specific)}

\* Two calls on a folder with a win and a loss of Garen against Darius.
C25_Witness ==
    /\ trains = 2
    /\ files = <<EarlierMatch, LaterMatch>>
    /\ GeneralWeight("Garen", "START", "1") = 2 * (WinWeight + LossWeight)
    /\ SpecificWeight("Garen", "Darius", "1", "3") = 2 * WinWeight

(***************************************************************************)
(* Claims on ties and on the two traversals, in SpecGreedy                 *)
(***************************************************************************)
\* a transition table is two dicts deep
TableDepth == 2

\* the table as it comes back from json.dump and json.load
Reloaded(table) == JsonLoads(JsonDumps(table, TableDepth), TableDepth)

\* the walk made so far
Walked == [path |-> build_path, scores |-> scores]

\* C26: when several destinations not yet chosen share the highest weight, the
\* traversal chooses the one inserted first into the dict of the current node,
\* and the traversal of the table saved and loaded again makes the same
\* choices.
C26_TieBreakFirstInserted ==
    /\ \A k \in DOMAIN build_path :
          LET opts == Options(NodeBefore(k))
              free == {i \in DOMAIN opts : opts[i][1] \notin ChosenBefore(k)}
              best == {i \in free : \A j \in free : opts[j][2] <= opts[i][2]}
          IN  \E i \in best :
                  /\ opts[i][1] = build_path[k]
                  /\ \A j \in best : i <= j
    /\ pc = "walk_done" => GreedyPath(program, Reloaded(transitions)) = Walked

\* START has two destinations of equal weight, "3" inserted before "1".
C26_Witness ==
    /\ pc = "walk_done"
    /\ Options("START") = << <<"3", 6>>, <<"1", 6>> >>
    /\ Len(build_path) >= 1
    /\ build_path[1] = "3"

\* C30: on every table the traversal of markov_trainer.py (maximum first, the
\* sorted fallback when the maximum is taken) and the traversal of marko.py
\* (first free entry of the sorted options) choose the same items with the
\* same scores.
C30_TraversalsEquivalent ==
    pc = "walk_done" =>
        /\ GreedyPath("markov_trainer", transitions) = GreedyPath("marko", transitions)
        /\ Walked = GreedyPath("marko", transitions)
        /\ Walked = GreedyPath("markov_trainer", transitions)

\* markov_trainer.py at node "3", whose heaviest destination is "3" itself:
\* the fallback chooses "1".
C30_Witness ==
    /\ pc = "walk_done"
    /\ program = "markov_trainer"
    /\ Options("3") = << <<"3", 6>>, <<"1", 1>> >>
    /\ build_path = <<"3", "1">>

====
